---- MODULE Spec2Model ----
(***************************************************************************)
(* Midea air-conditioner infrared remote: protocol encoder (pack_data,     *)
(* add_complementary_bytes), pulse builder (init_buff .. add_stop, start)  *)
(* and the timer-interrupt playback engine (HAL_TIM_PeriodElapsedCallback) *)
(* of midea_ir.c.                                                          *)
(*                                                                         *)
(* Foreground operations (midea_ir_init, midea_ir_send,                    *)
(* midea_ir_move_deflector) are one action each; the timer interrupt is    *)
(* the action Tick, enabled while the hardware timer runs.  A foreground   *)
(* operation is taken as a whole: interrupts that would preempt it in the  *)
(* middle (possible only when it is called while the timer runs) are       *)
(* ordered before or after it.                                             *)
(*                                                                         *)
(* src, data, op, armed, clean, ticks and advances are history variables:  *)
(* they record what was handed to the builder and count the callbacks of   *)
(* the current transmission; no operation reads them.                      *)
(***************************************************************************)
EXTENDS Integers, Sequences, FiniteSets

(***************************************************************************)
(* Program constants                                                       *)
(***************************************************************************)
RAW_DATA_PACKET_SIZE == 6

\* a buffer of 26 bytes (208 slots), too short for the all-ones frame
PULSES_CAPACITY_Short == 8 * 3 + 2

PULSES_CAPACITY == 29

SUB_PULSES_PER_PULSE == 42

\* midea_ir.h is not part of the sources at hand: the limits of the
\* supported temperature range and the mode codes are taken from the
\* protocol description (17 C .. 30 C; cool 0000, heat 1100, auto 1000,
\* fan 0100).
TEMP_LOW == 17

TEMP_HIGH == 30

MODE_COOL == 0

MODE_HEAT == 12

MODE_AUTO == 8

MODE_FAN == 4

Modes == {MODE_COOL, MODE_HEAT, MODE_AUTO, MODE_FAN}

GPIO_PIN_RESET == "RESET"

GPIO_PIN_SET == "SET"

temperature_table ==
    <<0, 1, 3, 2, 6, 7, 5, 4, 12, 13, 9, 8, 10, 11>>

fan_table == <<11, 9, 5, 3>>

(***************************************************************************)
(* Bounds of the model                                                     *)
(***************************************************************************)
\* temperatures the caller may set: TempMin .. TempMax (both sides of the
\* supported range are included)
TempMin == 15

TempMax == 32

\* fan levels the caller may set: 0 .. MaxFanLevel (fan_table has 4 entries,
\* a larger level reads past the table)
MaxFanLevel == 4

\* number of ACStates, out of SendSamples, that the engine specification
\* sends
NumSendSamples == 1

\* number of byte values, out of ByteSamples, that raw frames are built from
NumByteSamples == 3
MaxBuildTicks == 3

\* the timer callback is not followed further once repeat_count exceeds
\* this value (only reachable through the 8-bit wrap of repeat_count)
MaxRepeatCount == 2

(***************************************************************************)
(* 8-bit arithmetic                                                        *)
(***************************************************************************)
Pow2(k) == 2 ^ k

\* (v & (1 << k)) != 0
Bit(v, k) == (v \div Pow2(k)) % 2 = 1

\* v | (1 << k)
SetBit(v, k) == IF Bit(v, k) THEN v ELSE v + Pow2(k)

U8(n) == n % 256

(***************************************************************************)
(* Packet encoder                                                          *)
(***************************************************************************)
\* MideaIR, the caller's struct
ACStates ==
    [temperature : TempMin..TempMax, enabled : BOOLEAN,
     mode : Modes, fan_level : 0..MaxFanLevel]

\* fan_table[ir->fan_level]; an index past the table reads whatever byte
\* follows it in memory: oob is that byte
FanLookup(level, oob) ==
    IF level < Len(fan_table) THEN fan_table[level + 1] ELSE oob

\* pack_data with the command nibble taken from the mode before the enabled
\* test, so that the off packet carries the mode
pack_data_OffKeepsMode(ir, oob) ==
    IF ir.enabled
    THEN [magic   |-> 178,
          fan     |-> (IF ir.mode = MODE_AUTO
                       THEN 1
                       ELSE FanLookup(ir.fan_level, oob) % 16),
          state   |-> 15,
          command |-> ir.mode % 16,
          temp    |-> (IF ir.mode = MODE_FAN
                       THEN 14
                       ELSE IF ir.temperature >= TEMP_LOW
                               /\ ir.temperature <= TEMP_HIGH
                            THEN temperature_table[ir.temperature - TEMP_LOW + 1] % 16
                            ELSE 4)]
    ELSE [magic |-> 178, fan |-> 7, state |-> 11, command |-> ir.mode % 16,
          temp |-> 14]

\* pack_data: the DataPacket (4-bit fields keep the low 4 bits)
pack_data(ir, oob) ==
    IF ir.enabled
    THEN [magic   |-> 178,
          fan     |-> (IF ir.mode = MODE_AUTO
                       THEN 1
                       ELSE FanLookup(ir.fan_level, oob) % 16),
          state   |-> 15,
          command |-> ir.mode % 16,
          temp    |-> (IF ir.mode = MODE_FAN
                       THEN 14
                       ELSE IF ir.temperature >= TEMP_LOW
                               /\ ir.temperature <= TEMP_HIGH
                            THEN temperature_table[ir.temperature - TEMP_LOW + 1] % 16
                            ELSE 4)]
    ELSE [magic |-> 178, fan |-> 7, state |-> 11, command |-> 0, temp |-> 14]

\* PacketBytes with the bit-fields allocated from the most significant bit
PacketBytes_Swapped(p) ==
    <<p.magic, p.state * 16 + p.fan, p.command * 16 + p.temp>>

\* (uint8_t *)&packet: the three bytes of a DataPacket in memory; bit-fields
\* are allocated from the least significant bit of their byte (ARM EABI,
\* little-endian), so state/command are the low nibbles
PacketBytes(p) ==
    <<p.magic, p.fan * 16 + p.state, p.temp * 16 + p.command>>

\* add_complementary_bytes with the arithmetic negation -x for ~x
add_complementary_bytes_Negated(src) ==
    [k \in 1..RAW_DATA_PACKET_SIZE |->
        IF k % 2 = 1 THEN src[(k + 1) \div 2]
                     ELSE U8(256 - src[k \div 2])]

\* add_complementary_bytes storing each byte twice instead of the byte and
\* its complement
add_complementary_bytes_Repeat(src) ==
    [k \in 1..RAW_DATA_PACKET_SIZE |->
        IF k % 2 = 1 THEN src[(k + 1) \div 2]
                     ELSE src[k \div 2]]

\* add_complementary_bytes: dst of 6 bytes from src of 3 bytes
add_complementary_bytes(src) ==
    [k \in 1..RAW_DATA_PACKET_SIZE |->
        IF k % 2 = 1 THEN src[(k + 1) \div 2]
                     ELSE U8(255 - src[k \div 2])]

(***************************************************************************)
(* Pulse builder, on the fields of ir_state                                *)
(***************************************************************************)
ZeroPulses == [i \in 0..(PULSES_CAPACITY - 1) |-> 0]

\* init_buff resetting the cursors only, the slot bits left as they were
init_buff_NoClear(s) ==
    [s EXCEPT !.current_pulse = 0,
              !.current_sub_pulse = 0]

init_buff(s) ==
    [s EXCEPT !.current_pulse = 0,
              !.current_sub_pulse = 0,
              !.pulses = ZeroPulses]

add_start(s) ==
    [s EXCEPT !.pulses = [@ EXCEPT ![0] = 255, ![1] = 0],
              !.current_pulse = 8 * 2]

\* a write past pulses[] is outside the array; the 6-byte frame never gets
\* there, and the model leaves the array alone in that case
add_bit(s, bit) ==
    LET idx == s.current_pulse \div 8
        marked == IF idx < PULSES_CAPACITY
                  THEN [s.pulses EXCEPT ![idx] = SetBit(@, s.current_pulse % 8)]
                  ELSE s.pulses
        next == U8(s.current_pulse + 1)
    IN  [s EXCEPT !.pulses = marked,
                  !.current_pulse = IF bit THEN U8(next + 3) ELSE U8(next + 1)]

add_stop(s) ==
    LET t == add_bit(s, TRUE)
    IN  [t EXCEPT !.current_pulse = U8(@ + 8)]

\* start(), the fields of ir_state (the timer start is in the action)
start(s, repeat) ==
    [s EXCEPT !.pulses_size = s.current_pulse,
              !.current_pulse = 0,
              !.current_sub_pulse = 0,
              !.repeat_count = repeat]

\* add_byte_bits sending the least significant bit first
RECURSIVE add_byte_bits_LsbFirst(_, _, _)
add_byte_bits_LsbFirst(s, v, i) ==
    IF i >= 8 THEN s
    ELSE add_byte_bits_LsbFirst(add_bit(s, Bit(v, 0)), v \div 2, i + 1)

\* the inner loop of send_ir_data: bits i..7 of one byte, most significant
\* first (v is shifted left after each bit)
RECURSIVE add_byte_bits(_, _, _)
add_byte_bits(s, v, i) ==
    IF i >= 8 THEN s
    ELSE add_byte_bits(add_bit(s, Bit(v, 7)), U8(v * 2), i + 1)

\* the outer loop of send_ir_data: bytes b.. of data (1-based here)
RECURSIVE add_bytes(_, _, _)
add_bytes(s, data, b) ==
    IF b > RAW_DATA_PACKET_SIZE THEN s
    ELSE add_bytes(add_byte_bits(s, data[b], 0), data, b + 1)

\* send_ir_data, the fields of ir_state
send_ir_data(s, data, repeat) ==
    start(add_stop(add_bytes(add_start(init_buff(s)), data, 1)), repeat)

\* ir_state.pulses[current_pulse / 8] & (1 << (current_pulse % 8))
PulseVal(s, k) == Bit(s.pulses[k \div 8], k % 8)

(***************************************************************************)
(* Timer interrupt                                                         *)
(***************************************************************************)
\* The callback returns the new ir_state, the new pin level and whether it
\* stopped the timer.

\* CarrierTick with the parity test inverted (the odd sub-pulses active)
CarrierTick_OddActive(s) ==
    LET pulse_val == PulseVal(s, s.current_pulse)
    IN  [s    |-> [s EXCEPT !.current_sub_pulse = U8(@ + 1)],
         pin  |-> IF s.current_sub_pulse % 2 = 1 /\ pulse_val
                  THEN GPIO_PIN_RESET
                  ELSE GPIO_PIN_SET,
         stop |-> FALSE]

\* the branch current_sub_pulse < SUB_PULSES_PER_PULSE: one half carrier
\* cycle of the current pulse
CarrierTick(s) ==
    LET pulse_val == PulseVal(s, s.current_pulse)
    IN  [s    |-> [s EXCEPT !.current_sub_pulse = U8(@ + 1)],
         pin  |-> IF s.current_sub_pulse % 2 = 0 /\ pulse_val
                  THEN GPIO_PIN_RESET
                  ELSE GPIO_PIN_SET,
         stop |-> FALSE]

\* PulseFinished with the end-of-buffer test off by one (> for >=)
PulseFinished_LateEnd(s, p) ==
    LET cp == U8(s.current_pulse + 1)
        rc == U8(s.repeat_count - 1)
    IN  IF cp > s.pulses_size
        THEN IF rc # 0
             THEN [s    |-> [s EXCEPT !.current_sub_pulse = 0,
                                      !.current_pulse = 0,
                                      !.repeat_count = rc],
                   pin  |-> p,
                   stop |-> FALSE]
             ELSE [s    |-> [s EXCEPT !.current_sub_pulse = 0,
                                      !.current_pulse = cp,
                                      !.repeat_count = rc],
                   pin  |-> GPIO_PIN_RESET,
                   stop |-> TRUE]
        ELSE [s    |-> [s EXCEPT !.current_sub_pulse = 0,
                                 !.current_pulse = cp],
              pin  |-> p,
              stop |-> FALSE]

\* PulseFinished without HAL_TIM_Base_Stop_IT when the repeat count reaches 0
PulseFinished_NoStop(s, p) ==
    LET cp == U8(s.current_pulse + 1)
        rc == U8(s.repeat_count - 1)
    IN  IF cp >= s.pulses_size
        THEN IF rc # 0
             THEN [s    |-> [s EXCEPT !.current_sub_pulse = 0,
                                      !.current_pulse = 0,
                                      !.repeat_count = rc],
                   pin  |-> p,
                   stop |-> FALSE]
             ELSE [s    |-> [s EXCEPT !.current_sub_pulse = 0,
                                      !.current_pulse = cp,
                                      !.repeat_count = rc],
                   pin  |-> GPIO_PIN_RESET,
                   stop |-> FALSE]
        ELSE [s    |-> [s EXCEPT !.current_sub_pulse = 0,
                                 !.current_pulse = cp],
              pin  |-> p,
              stop |-> FALSE]

\* PulseFinished clearing the slot bits when it rewinds for a repetition
PulseFinished_Reclear(s, p) ==
    LET cp == U8(s.current_pulse + 1)
        rc == U8(s.repeat_count - 1)
    IN  IF cp >= s.pulses_size
        THEN IF rc # 0
             THEN [s    |-> [s EXCEPT !.current_sub_pulse = 0,
                                      !.current_pulse = 0,
                                      !.repeat_count = rc,
                                      !.pulses = ZeroPulses],
                   pin  |-> p,
                   stop |-> FALSE]
             ELSE [s    |-> [s EXCEPT !.current_sub_pulse = 0,
                                      !.current_pulse = cp,
                                      !.repeat_count = rc],
                   pin  |-> GPIO_PIN_RESET,
                   stop |-> TRUE]
        ELSE [s    |-> [s EXCEPT !.current_sub_pulse = 0,
                                 !.current_pulse = cp],
              pin  |-> p,
              stop |-> FALSE]

\* the else branch ("pulse is finished"), with the pin at level p
PulseFinished(s, p) ==
    LET cp == U8(s.current_pulse + 1)
        rc == U8(s.repeat_count - 1)
    IN  IF cp >= s.pulses_size
        THEN IF rc # 0
             THEN [s    |-> [s EXCEPT !.current_sub_pulse = 0,
                                      !.current_pulse = 0,
                                      !.repeat_count = rc],
                   pin  |-> p,
                   stop |-> FALSE]
             ELSE [s    |-> [s EXCEPT !.current_sub_pulse = 0,
                                      !.current_pulse = cp,
                                      !.repeat_count = rc],
                   pin  |-> GPIO_PIN_RESET,
                   stop |-> TRUE]
        ELSE [s    |-> [s EXCEPT !.current_sub_pulse = 0,
                                 !.current_pulse = cp],
              pin  |-> p,
              stop |-> FALSE]

HAL_TIM_PeriodElapsedCallback(s, p) ==
    IF s.current_sub_pulse < SUB_PULSES_PER_PULSE
    THEN CarrierTick(s)
    ELSE PulseFinished(s, p)

(***************************************************************************)
(* State                                                                   *)
(***************************************************************************)
VARIABLES
    ir_state,   \* static volatile IrState ir_state
    pin,        \* level of IR_LED_Pin
    tim,        \* TRUE while htim1 runs with its interrupt enabled
    ir,         \* the caller's MideaIR struct, as last passed to the module
    src,        \* the 3 bytes last handed to add_complementary_bytes
    data,       \* the 6-byte raw frame last handed to send_ir_data
    op,         \* the foreground operation called last
    armed,      \* the repeat count of the last start(), 0 before the first
    clean,      \* the last start() found the engine idle and no foreground
                \* operation was called since
    ticks,      \* timer callbacks since the last start(), counted while clean
    advances,   \* slot cursor advances since the last start(), while clean
    pc          \* where a call of send_ir_data that is followed statement by
                \* statement stands (at) and its repeat argument; at = 0
                \* when there is no such call

vars == <<ir_state, pin, tim, ir, src, data, op, armed, clean, ticks, advances,
         pc>>

\* midea_ir_init's values of the caller's struct
DefaultIr ==
    [temperature |-> 24, enabled |-> FALSE, mode |-> MODE_AUTO, fan_level |-> 0]

\* no call of send_ir_data in progress
NoCall == [at |-> 0, repeat |-> 0]

\* ir_state in zero-initialised static storage
ZeroIrState ==
    [pin_number |-> 0, pulses |-> ZeroPulses, pulses_size |-> 0,
     repeat_count |-> 0, current_pulse |-> 0, current_sub_pulse |-> 0]

\* zero-initialised static storage, then midea_ir_init at boot
Init ==
    /\ ir_state = ZeroIrState
    /\ pin = GPIO_PIN_RESET
    /\ tim = FALSE
    /\ ir = DefaultIr
    /\ src = <<>>
    /\ data = <<>>
    /\ op = "init"
    /\ armed = 0
    /\ clean = FALSE
    /\ ticks = 0
    /\ advances = 0
    /\ pc = NoCall

Idle == ir_state.repeat_count = 0 /\ ~tim

(***************************************************************************)
(* Operations                                                              *)
(***************************************************************************)
\* send_ir_data(data, repeat) including start()'s HAL_TIM_Base_Start_IT
SendIrData(d, repeat) ==
    /\ ir_state' = send_ir_data(ir_state, d, repeat)
    /\ tim' = TRUE
    /\ data' = d
    /\ armed' = repeat
    /\ clean' = Idle
    /\ ticks' = 0
    /\ advances' = 0
    /\ UNCHANGED <<pin, pc>>

midea_ir_send(a) ==
    \E oob \in (IF a.enabled /\ a.mode # MODE_AUTO /\ a.fan_level >= Len(fan_table)
                THEN 0..255 ELSE {0}) :
        LET packet == PacketBytes(pack_data(a, oob))
        IN  /\ SendIrData(add_complementary_bytes(packet), 2)
            /\ src' = packet
            /\ op' = "send"
            /\ ir' = a

midea_ir_move_deflector ==
    LET bytes == <<178, 15, 224>>
    IN  /\ SendIrData(add_complementary_bytes(bytes), 1)
        /\ src' = bytes
        /\ op' = "deflector"
        /\ UNCHANGED ir

midea_ir_init ==
    /\ ir_state' = [ir_state EXCEPT !.repeat_count = 0]
    /\ ir' = DefaultIr
    /\ pin' = GPIO_PIN_RESET
    /\ op' = "init"
    /\ clean' = FALSE
    /\ ticks' = 0
    /\ advances' = 0
    /\ UNCHANGED <<tim, src, data, armed, pc>>

\* one timer interrupt
Tick ==
    /\ tim
    /\ ir_state.repeat_count <= MaxRepeatCount
    /\ LET r == HAL_TIM_PeriodElapsedCallback(ir_state, pin)
       IN  /\ ir_state' = r.s
           /\ pin' = r.pin
           /\ tim' = ~r.stop
           /\ ticks' = IF clean THEN ticks + 1 ELSE ticks
           /\ advances' = IF clean /\ ir_state.current_sub_pulse >= SUB_PULSES_PER_PULSE
                          THEN advances + 1 ELSE advances
    /\ UNCHANGED <<ir, src, data, op, armed, clean, pc>>

(***************************************************************************)
(* Specifications                                                          *)
(***************************************************************************)
SendSamples ==
    << [temperature |-> 22, enabled |-> TRUE,  mode |-> MODE_COOL, fan_level |-> 2],
       [temperature |-> 24, enabled |-> FALSE, mode |-> MODE_AUTO, fan_level |-> 0],
       [temperature |-> 24, enabled |-> TRUE,  mode |-> MODE_FAN,  fan_level |-> 1] >>

SendStates == {SendSamples[i] : i \in 1..NumSendSamples}

\* the engine: every interleaving of the three operations and the interrupt
Next ==
    \/ \E a \in SendStates : midea_ir_send(a)
    \/ midea_ir_move_deflector
    \/ midea_ir_init
    \/ Tick

Spec == Init /\ [][Next]_vars

\* the engine with a caller that arms it only when it is idle
\* (repeat_count = 0 and the timer stopped); midea_ir_init at any time
GuardedNext ==
    \/ Idle /\ \E a \in SendStates : midea_ir_send(a)
    \/ Idle /\ midea_ir_move_deflector
    \/ midea_ir_init
    \/ Tick

GuardedSpec == Init /\ [][GuardedNext]_vars

\* the same, with the hardware timer delivering its interrupt for as long
\* as it runs
LiveSpec == GuardedSpec /\ WF_vars(Tick)

\* the encoder: the first request of a caller, for every ACState
EncNext ==
    \/ Idle /\ \E a \in ACStates : midea_ir_send(a)
    \/ Idle /\ midea_ir_move_deflector

EncSpec == Init /\ [][EncNext]_vars

ByteSamples == <<0, 255, 178, 77, 165>>

RawFrames ==
    [1..RAW_DATA_PACKET_SIZE -> {ByteSamples[i] : i \in 1..NumByteSamples}]

\* the pulse builder: send_ir_data on an idle engine, for raw frames that
\* need not be complementary
RawNext ==
    /\ Idle
    /\ \E d \in RawFrames, repeat \in 1..2 :
           SendIrData(d, repeat) /\ op' = "raw" /\ UNCHANGED <<ir, src>>

RawSpec == Init /\ [][RawNext]_vars

(***************************************************************************)
(* send_ir_data statement by statement, the timer interrupt in between     *)
(***************************************************************************)
StepOf(name, arg) == [op |-> name, arg |-> arg]

\* the 48 add_bit calls of the two loops of send_ir_data: for byte b, bit i
\* is v & (1 << 7) after v has been shifted left i times
BitSteps(d) ==
    [n \in 1..(8 * RAW_DATA_PACKET_SIZE) |->
        LET v == d[((n - 1) \div 8) + 1]
            i == (n - 1) % 8
        IN  StepOf("add_bit", IF Bit(U8(v * Pow2(i)), 7) THEN 1 ELSE 0)]

\* the statements of start(), in program order
StartSteps(repeat) ==
    << StepOf("pulses_size", 0),
       StepOf("current_pulse", 0),
       StepOf("current_sub_pulse", 0),
       StepOf("repeat_count", repeat),
       StepOf("HAL_TIM_Base_Start_IT", 0) >>

\* the calls of send_ir_data, in program order
send_ir_data_steps(d, repeat) ==
    << StepOf("init_buff", 0), StepOf("add_start", 0) >>
    \o BitSteps(d)
    \o << StepOf("add_stop", 0) >>
    \o StartSteps(repeat)

\* the effect of one step on ir_state
DoStep(s, st) ==
    CASE st.op = "init_buff"         -> init_buff(s)
      [] st.op = "add_start"         -> add_start(s)
      [] st.op = "add_bit"           -> add_bit(s, st.arg = 1)
      [] st.op = "add_stop"          -> add_stop(s)
      [] st.op = "pulses_size"       -> [s EXCEPT !.pulses_size = s.current_pulse]
      [] st.op = "current_pulse"     -> [s EXCEPT !.current_pulse = 0]
      [] st.op = "current_sub_pulse" -> [s EXCEPT !.current_sub_pulse = 0]
      [] st.op = "repeat_count"      -> [s EXCEPT !.repeat_count = st.arg]
      [] OTHER                       -> s

\* the engine is idle as the module records it: repeat_count = 0
\* ("indicates IDLE state")
IdleFlag == ir_state.repeat_count = 0

\* a caller that found the engine idle enters send_ir_data; with the timer
\* still running the model takes the request only at the start of a slot 0
RequestSendIrData(d, repeat) ==
    /\ pc = NoCall
    /\ IdleFlag
    /\ tim => /\ ir_state.current_pulse = 0
              /\ ir_state.current_sub_pulse < MaxBuildTicks
    /\ pc' = [at |-> 1, repeat |-> repeat]
    /\ data' = d
    /\ clean' = Idle
    /\ ticks' = 0
    /\ advances' = 0
    /\ UNCHANGED <<ir_state, pin, tim, armed>>

RequestSend(a) ==
    LET packet == PacketBytes(pack_data(a, 0))
    IN  /\ a.fan_level < Len(fan_table)
        /\ RequestSendIrData(add_complementary_bytes(packet), 2)
        /\ src' = packet
        /\ op' = "send"
        /\ ir' = a

RequestMoveDeflector ==
    LET bytes == <<178, 15, 224>>
    IN  /\ RequestSendIrData(add_complementary_bytes(bytes), 1)
        /\ src' = bytes
        /\ op' = "deflector"
        /\ UNCHANGED ir

\* the statement the call in progress stands at
CurrentStep == send_ir_data_steps(data, pc.repeat)[pc.at]

\* the next statement of the call in progress
Step ==
    /\ pc # NoCall
    /\ ir_state' = DoStep(ir_state, CurrentStep)
    /\ tim' = (tim \/ CurrentStep.op = "HAL_TIM_Base_Start_IT")
    /\ armed' = IF CurrentStep.op = "repeat_count" THEN CurrentStep.arg ELSE armed
    /\ pc' = IF pc.at = Len(send_ir_data_steps(data, pc.repeat))
             THEN NoCall
             ELSE [pc EXCEPT !.at = @ + 1]
    /\ UNCHANGED <<pin, ir, src, data, op, clean, ticks, advances>>

\* the timer interrupt, which can come between any two statements; inside
\* a call the model follows it for MaxBuildTicks ticks of a slot
StepTick ==
    /\ pc # NoCall => ir_state.current_sub_pulse < MaxBuildTicks
    /\ Tick

StepNext ==
    \/ \E a \in SendStates : RequestSend(a)
    \/ RequestMoveDeflector
    \/ Step
    \/ pc = NoCall /\ midea_ir_init
    \/ StepTick

StepSpec == Init /\ [][StepNext]_vars

(***************************************************************************)
(* Playback engine: repeat semantics, idle/busy guard, slot timing, pin    *)
(***************************************************************************)
\* an undisturbed transmission: armed on an idle engine by send or
\* move_deflector, no foreground call since
Undisturbed == clean /\ armed >= 1

\* C1: when the engine is armed while idle with repeat count N and a buffer
\* of S slots and nothing else is called, the callback advances the slot
\* cursor exactly N*S times, walking slots 0..S-1 once per repetition, and
\* is idle (repeat_count = 0, timer stopped) exactly when that is done;
\* midea_ir_send arms with N = 2, midea_ir_move_deflector with N = 1.
C1_RepeatSemantics ==
    Undisturbed =>
        LET S == ir_state.pulses_size
            N == armed
        IN  /\ S >= 1
            /\ (op = "send" => N = 2)
            /\ (op = "deflector" => N = 1)
            /\ advances <= N * S
            /\ (advances = N * S <=> Idle)
            /\ (advances = N * S <=> ir_state.repeat_count = 0)
            /\ (advances = N * S <=> ~tim)
            /\ advances < N * S =>
                   /\ ir_state.current_pulse = advances % S
                   /\ ir_state.repeat_count = N - (advances \div S)

\* a transmission armed by midea_ir_send has replayed its buffer twice and
\* the engine is idle again
C1_Witness ==
    /\ Undisturbed
    /\ op = "send"
    /\ Idle
    /\ ir_state.pulses_size > 16
    /\ advances = 2 * ir_state.pulses_size

ForegroundArm ==
    \/ \E a \in SendStates : midea_ir_send(a)
    \/ midea_ir_move_deflector

\* C2: a call of midea_ir_send or midea_ir_move_deflector made while the
\* engine is playing (repeat_count > 0) leaves ir_state (pulses,
\* pulses_size, repeat_count, current_pulse, current_sub_pulse) as it is.
C2_BusyGuard ==
    [][(ir_state.repeat_count > 0 /\ ForegroundArm) => ir_state' = ir_state]_vars

\* C3: every slot takes exactly SUB_PULSES_PER_PULSE = 42 timer ticks, so
\* after k slot advances and j ticks into the current slot 42*k + j ticks
\* have passed, and a finished transmission of S slots repeated N times
\* took 42*S*N ticks.
C3_SlotTicks ==
    Undisturbed =>
        /\ ticks = SUB_PULSES_PER_PULSE * advances + ir_state.current_sub_pulse
        /\ Idle => ticks = SUB_PULSES_PER_PULSE * ir_state.pulses_size * armed

\* C4: the pin has one idle level, GPIO_PIN_RESET, the level midea_ir_init
\* writes and the callback forces when the repeat count reaches 0: inside
\* the window of a space slot, once the callback has written the pin, the
\* pin is at that level; and a mark slot's active half-cycles (the even
\* sub-pulses) drive the other level.
C4_SingleIdleLevel ==
    (Undisturbed /\ tim /\ ir_state.current_sub_pulse >= 1) =>
        LET pulse_val == PulseVal(ir_state, ir_state.current_pulse)
            written == ir_state.current_sub_pulse - 1
        IN  /\ ~pulse_val => pin = GPIO_PIN_RESET
            /\ (pulse_val /\ written % 2 = 0) => pin # GPIO_PIN_RESET

(***************************************************************************)
(* Pulse builder: slot count, stop marker, round trip                      *)
(***************************************************************************)
\* slots of one data bit: 2 for a 0, 4 for a 1
BitSlots(v, k) == IF Bit(v, k) THEN 4 ELSE 2

ByteSlots(v) ==
    BitSlots(v, 0) + BitSlots(v, 1) + BitSlots(v, 2) + BitSlots(v, 3)
    + BitSlots(v, 4) + BitSlots(v, 5) + BitSlots(v, 6) + BitSlots(v, 7)

FrameSlots(d) ==
    ByteSlots(d[1]) + ByteSlots(d[2]) + ByteSlots(d[3])
    + ByteSlots(d[4]) + ByteSlots(d[5]) + ByteSlots(d[6])

\* C5: for every raw frame the slot count recorded when the engine is
\* armed is 16 (start) + the sum over the 48 bits of 2 or 4 + 9 (stop).
C5_SlotCountFormula ==
    armed >= 1 => ir_state.pulses_size = 16 + FrameSlots(data) + 9

\* C6: after the last data bit the buffer holds exactly one mark slot and
\* exactly 8 space slots, and these 9 slots are the last ones counted in
\* pulses_size.
C6_StopMarker ==
    armed >= 1 =>
        LET stop == 16 + FrameSlots(data)
        IN  /\ PulseVal(ir_state, stop)
            /\ \A k \in 1..8 : ~PulseVal(ir_state, stop + k)
            /\ ir_state.pulses_size = stop + 1 + 8

\* The decoder of the round trip: at slot pos a mark must stand; a mark
\* followed by 1 space and then a mark is bit 0, a mark followed by 3 spaces
\* and then a mark is bit 1; anything else does not decode (-1).
RECURSIVE DecodeBits(_, _, _)
DecodeBits(s, pos, n) ==
    IF n = 0 THEN <<>>
    ELSE IF ~PulseVal(s, pos) \/ PulseVal(s, pos + 1) THEN <<-1>>
    ELSE IF PulseVal(s, pos + 2) THEN <<0>> \o DecodeBits(s, pos + 2, n - 1)
    ELSE IF ~PulseVal(s, pos + 3) /\ PulseVal(s, pos + 4)
         THEN <<1>> \o DecodeBits(s, pos + 4, n - 1)
    ELSE <<-1>>

\* the 8-mark / 8-space start condition
StartCondition(s) ==
    /\ \A k \in 0..7 : PulseVal(s, k)
    /\ \A k \in 8..15 : ~PulseVal(s, k)

\* 48 decoded bits as 6 bytes, most significant bit first
BytesOfBits(bits) ==
    [b \in 1..RAW_DATA_PACKET_SIZE |->
        LET bit(i) == bits[8 * (b - 1) + i]
        IN  128 * bit(1) + 64 * bit(2) + 32 * bit(3) + 16 * bit(4)
            + 8 * bit(5) + 4 * bit(6) + 2 * bit(7) + bit(8)]

\* C7: decoding the built buffer (skip the start, read 48 bits) gives back
\* the 6 bytes of the raw frame, in order.
C7_RoundTrip ==
    armed >= 1 =>
        LET bits == DecodeBits(ir_state, 16, 8 * RAW_DATA_PACKET_SIZE)
        IN  /\ StartCondition(ir_state)
            /\ Len(bits) = 8 * RAW_DATA_PACKET_SIZE
            /\ \A i \in 1..Len(bits) : bits[i] \in {0, 1}
            /\ BytesOfBits(bits) = data

\* a frame whose bytes are not palindromes and not all alike was built
C7_Witness ==
    /\ armed >= 1
    /\ op = "raw"
    /\ data = <<178, 0, 255, 178, 0, 255>>
    /\ ir_state.pulses_size > 16

(***************************************************************************)
(* Encoder: complement bytes, off packet, enabled packet                   *)
(***************************************************************************)
\* a ^ b on uint8_t
Xor8(a, b) ==
    LET x(k) == IF Bit(a, k) # Bit(b, k) THEN Pow2(k) ELSE 0
    IN  x(0) + x(1) + x(2) + x(3) + x(4) + x(5) + x(6) + x(7)

\* C8: every raw frame handed to the pulse builder by midea_ir_send or
\* midea_ir_move_deflector has the 3 source bytes in their order at indices
\* 0, 2, 4 and frame[2i] XOR frame[2i+1] = 0xFF.
C8_Complement ==
    op \in {"send", "deflector"} =>
        /\ Len(src) = 3
        /\ Len(data) = RAW_DATA_PACKET_SIZE
        /\ \A i \in 0..2 :
               /\ data[2 * i + 1] = src[i + 1]
               /\ data[2 * i + 2] \in 0..255
               /\ Xor8(data[2 * i + 1], data[2 * i + 2]) = 255

C8_Witness ==
    /\ op = "send"
    /\ ir.enabled
    /\ src = <<178, 95, 112>>
    /\ data = <<178, 77, 95, 160, 112, 143>>

\* the off packet: magic 0xB2, fan 0111 / state 1011, temp 1110 / command 0000
OffPacket == <<178, 123, 224>>

OffFrame == <<178, 77, 123, 132, 224, 31>>

\* the slot bits of the off frame, 8 slots a byte, slot k at bit k % 8
OffPulses ==
    <<255, 0, 81, 68, 69, 69, 69, 20, 69, 68, 20, 17, 85, 81, 17, 81, 85,
      21, 17, 17, 1, 0, 0, 0, 0, 0, 0, 0, 0>>

\* C9: when enabled is false midea_ir_send builds one fixed packet, frame
\* and slot buffer, whatever mode, fan_level and temperature are.
C9_OffPacket ==
    (op = "send" /\ ~ir.enabled) =>
        /\ src = OffPacket
        /\ data = OffFrame
        /\ \A j \in 0..(PULSES_CAPACITY - 1) : ir_state.pulses[j] = OffPulses[j + 1]
        /\ ir_state.pulses_size = 172

\* a disabled state whose other fields all differ from midea_ir_init's
C9_Witness ==
    /\ op = "send"
    /\ ~ir.enabled
    /\ ir.mode = MODE_HEAT
    /\ ir.fan_level = 3
    /\ ir.temperature = 30
    /\ armed = 2

\* C10: for an enabled state with fan_level in 0..3 and temperature in
\* 17..30 the packet is [0xB2, (fan << 4) | 1111, (temp << 4) | command]
\* with command the mode's code, fan 0001 in Auto and fan_table[fan_level]
\* otherwise, temp 1110 in Fan and temperature_table[temperature - 17]
\* otherwise; Cool, fan_level 2, 22 C gives [0xB2, 0x5F, 0x70].
C10_EnabledPacket ==
    (op = "send" /\ ir.enabled /\ ir.fan_level \in 0..3
     /\ ir.temperature \in 17..30) =>
        LET command == ir.mode
            fan == IF ir.mode = MODE_AUTO THEN 1 ELSE fan_table[ir.fan_level + 1]
            temp == IF ir.mode = MODE_FAN THEN 14
                    ELSE temperature_table[ir.temperature - 17 + 1]
        IN  /\ src = <<178, fan * 16 + 15, temp * 16 + command>>
            /\ (ir.mode = MODE_COOL /\ ir.fan_level = 2 /\ ir.temperature = 22)
                   => src = <<178, 95, 112>>

C10_Witness ==
    /\ op = "send"
    /\ ir = [temperature |-> 22, enabled |-> TRUE, mode |-> MODE_COOL,
             fan_level |-> 2]
    /\ src = <<178, 95, 112>>

(***************************************************************************)
(* Termination                                                             *)
(***************************************************************************)
\* C11: after an arm of an idle engine by midea_ir_send or
\* midea_ir_move_deflector, with the timer interrupt delivered and no
\* further operation called, the engine reaches idle (repeat_count = 0 and
\* the timer stopped): every undisturbed playing state leads to idle,
\* unless a foreground call ends the undisturbed run first.
C11_Termination == (Undisturbed /\ ~Idle) ~> (Idle \/ ~clean)

\* an undisturbed transmission in the middle of its last repetition
C11_Witness ==
    /\ Undisturbed
    /\ tim
    /\ armed = 2
    /\ ir_state.repeat_count = 1
    /\ ir_state.current_pulse = 100

(***************************************************************************)
(* Determinism across requests                                             *)
(***************************************************************************)
\* C12: whatever earlier, completed transmissions left in ir_state, the
\* slot bits and slot count built for a request are those built for the
\* same raw frame on the untouched boot state, and the raw frame of a
\* midea_ir_send is the one of its ACState alone.
C12_Determinism ==
    (Undisturbed /\ ticks = 0) =>
        LET ref == send_ir_data(ZeroIrState, data, armed)
        IN  /\ ir_state.pulses = ref.pulses
            /\ ir_state.pulses_size = ref.pulses_size
            /\ ir_state.current_pulse = 0
            /\ ir_state.current_sub_pulse = 0
            /\ (op = "send" /\ ir.fan_level < Len(fan_table)) =>
                   data = add_complementary_bytes(PacketBytes(pack_data(ir, 0)))

\* midea_ir_move_deflector armed on an idle engine whose buffer still holds
\* the different frame of an earlier midea_ir_send
C12_Witness ==
    /\ Undisturbed
    /\ ticks = 0
    /\ op = "deflector"
    /\ ir = SendSamples[1]
    /\ data # add_complementary_bytes(PacketBytes(pack_data(ir, 0)))

(***************************************************************************)
(* Carrier synthesis                                                       *)
(***************************************************************************)
\* a timer callback of an undisturbed transmission inside the window of the
\* current slot (one of its SUB_PULSES_PER_PULSE pin writes)
WindowTick ==
    /\ clean
    /\ ticks' = ticks + 1
    /\ ir_state.current_sub_pulse < SUB_PULSES_PER_PULSE

C14_IdlePlaying ==
    /\ tim => ir_state.repeat_count > 0
    /\ (Undisturbed /\ ir_state.repeat_count = 0) =>
           (~tim /\ pin = GPIO_PIN_RESET)

\* C19: over every interleaving of midea_ir_init, midea_ir_send,
\* midea_ir_move_deflector and timer ticks, no step takes repeat_count from
\* 0 to 255: the callback never decrements a repeat_count of 0.
C19_NoUnderflow ==
    [][ir_state.repeat_count = 0 => ir_state'.repeat_count # 255]_vars

(***************************************************************************)
(* Capacity of the slot buffer                                             *)
(***************************************************************************)
\* the mark slots standing in the buffer
Marks(s) ==
    {k \in 0..(8 * PULSES_CAPACITY - 1) :
        (k \div 8) \in DOMAIN s.pulses /\ PulseVal(s, k)}

\* C15: for every 6-byte raw frame, the all-ones frame included, the slot
\* count recorded at arming is the unwrapped sum 16 + data slots + 12 and is
\* at most PULSES_CAPACITY * 8 = 232, and every mark the builder writes
\* lands inside the buffer: the 8 start marks, the 48 bit marks and the stop
\* mark are all there, the stop mark 12 slots before the end.
C15_Capacity ==
    armed >= 1 =>
        /\ ir_state.pulses_size = 16 + FrameSlots(data) + 12
        /\ ir_state.pulses_size <= PULSES_CAPACITY * 8
        /\ ir_state.pulses_size < 256
        /\ Cardinality(Marks(ir_state)) = 8 + 8 * RAW_DATA_PACKET_SIZE + 1
        /\ (ir_state.pulses_size - 12) \in Marks(ir_state)

\* the all-ones frame has been built: 220 slots
C15_Witness ==
    /\ armed >= 1
    /\ op = "raw"
    /\ data = [i \in 1..RAW_DATA_PACKET_SIZE |-> 255]
    /\ ir_state.pulses_size = 220
    /\ PulseVal(ir_state, 208)

(***************************************************************************)
(* Replay                                                                  *)
(***************************************************************************)
\* C16: no timer callback changes the slot bits or pulses_size; a callback
\* changes at most current_pulse, current_sub_pulse and repeat_count of
\* ir_state (besides the pin and the timer), so a repetition plays the
\* slots the first pass played.
C16_ReplayUnchanged ==
    [][Tick =>
        /\ ir_state'.pulses = ir_state.pulses
        /\ ir_state'.pulses_size = ir_state.pulses_size
        /\ ir_state' = [ir_state EXCEPT
                            !.current_pulse = ir_state'.current_pulse,
                            !.current_sub_pulse = ir_state'.current_sub_pulse,
                            !.repeat_count = ir_state'.repeat_count]]_vars

\* the second pass of a transmission armed with repeat 2 is at the first
\* data mark, which is still in the buffer
C16_Witness ==
    /\ Undisturbed
    /\ tim
    /\ armed = 2
    /\ ir_state.repeat_count = 1
    /\ ir_state.current_pulse = 16
    /\ ir_state.current_sub_pulse = 1
    /\ PulseVal(ir_state, 16)
    /\ ir_state.pulses = send_ir_data(ZeroIrState, data, armed).pulses

(***************************************************************************)
(* Input normalization                                                     *)
(***************************************************************************)
\* the fan nibbles of the protocol: the fan_table codes, 0b0001 (auto mode)
\* and 0b0111 (off packet)
FanCodes == {fan_table[i] : i \in 1..Len(fan_table)} \cup {1, 7}

\* C17: for every state handed to midea_ir_send, pack_data indexes
\* fan_table and temperature_table inside their bounds, an enabled state
\* with a mode other than Fan and a temperature outside [17,30] gets the
\* temp nibble 0b0100, and the fan nibble of the packet is one of the
\* protocol's fan codes.
C17_Normalized ==
    (op = "send" /\ armed >= 1) =>
        LET fan  == src[2] \div 16
            temp == src[3] \div 16
        IN  /\ (ir.enabled /\ ir.mode # MODE_AUTO) =>
                   ir.fan_level < Len(fan_table)
            /\ (/\ ir.enabled
                /\ ir.mode # MODE_FAN
                /\ ir.temperature >= TEMP_LOW
                /\ ir.temperature <= TEMP_HIGH) =>
                   ir.temperature - TEMP_LOW < Len(temperature_table)
            /\ (/\ ir.enabled
                /\ ir.mode # MODE_FAN
                /\ (ir.temperature < TEMP_LOW \/ ir.temperature > TEMP_HIGH)) =>
                   temp = 4
            /\ fan \in FanCodes

(***************************************************************************)
(* Frame length                                                            *)
(***************************************************************************)
\* the 1 bits of a frame
OneBits(d) ==
    {<<b, k>> \in (1..RAW_DATA_PACKET_SIZE) \X (0..7) : Bit(d[b], k)}

\* C20: every frame built by midea_ir_send or midea_ir_move_deflector has
\* exactly 24 one-bits and 24 zero-bits, and the slot count armed into the
\* engine is the same number, 16 + 24 * 4 + 24 * 2 + 12, for every state
\* and every command.
C20_ConstantLength ==
    (op \in {"send", "deflector"} /\ armed >= 1) =>
        /\ Cardinality(OneBits(data)) = 24
        /\ 8 * RAW_DATA_PACKET_SIZE - Cardinality(OneBits(data)) = 24
        /\ ir_state.pulses_size = 16 + 24 * 4 + 24 * 2 + 12

\* a heat request at 30 C, fan level 3, armed with the common slot count
C20_Witness ==
    /\ op = "send"
    /\ armed = 2
    /\ ir = [temperature |-> 30, enabled |-> TRUE, mode |-> MODE_HEAT,
             fan_level |-> 3]
    /\ src = <<178, 63, 188>>
    /\ ir_state.pulses_size = 172

(***************************************************************************)
(* Building and playing                                                    *)
(***************************************************************************)
\* a call of send_ir_data is between init_buff and the timer start
Building == pc.at > 1

\* C18: when send_ir_data is entered on an idle engine (repeat_count = 0),
\* no timer callback runs between init_buff and the timer start at the end
\* of start(), and the first callback after the start finds the complete
\* slot bits, the final pulses_size, both cursors at 0 and repeat_count
\* equal to the requested repeat.
C18_NoPartialPlay ==
    [][Tick =>
        /\ ~Building
        /\ (clean /\ pc = NoCall /\ ticks = 0 /\ armed >= 1) =>
               ir_state = send_ir_data(ZeroIrState, data, armed)]_vars

====
